---- MODULE Spec2Model ----
(***************************************************************************)
(* Model of projecttile/__init__.py: the tile <-> coordinate conversions   *)
(* (ul, bounds, _tile, tile, truncate_xy, _parse_tile_arg) and the tiles() *)
(* generator.                                                              *)
(*                                                                         *)
(* Python floats are IEEE-754 doubles.  A double is modelled as a pair     *)
(*     [hi |-> r, lo |-> q]   standing for   r + q * 2^-54                 *)
(* of exact rationals: hi is the part of ordinary size, lo the part that   *)
(* lives 54 binary places below it.  A double carries 53 significant bits, *)
(* so next to a non-zero hi only the multiples of the spacing of hi's      *)
(* binade survive in lo; Round53 rounds lo to them (to nearest, ties to    *)
(* even), which is what every float operation of the source does to its    *)
(* result.  The rationals kept in hi need far fewer than 53 bits, so hi    *)
(* itself is never rounded.                                                *)
(***************************************************************************)
EXTENDS Integers, Sequences, FiniteSets

(***************************************************************************)
(* Exact rationals [n |-> numerator, d |-> denominator > 0], in lowest     *)
(* terms, so that equal numbers are equal records.                         *)
(***************************************************************************)
Abs(a) == IF a < 0 THEN -a ELSE a

RECURSIVE Gcd(_, _)
Gcd(a, b) == IF b = 0 THEN a ELSE Gcd(b, a % b)

Rat(n, d) ==
    LET g == Gcd(Abs(n), Abs(d))
        sg == IF d < 0 THEN -1 ELSE 1
    IN  [n |-> sg * (n \div g), d |-> sg * (d \div g)]

RInt(k) == [n |-> k, d |-> 1]
RAdd(a, b) == Rat(a.n * b.d + b.n * a.d, a.d * b.d)
RNeg(a) == [n |-> -a.n, d |-> a.d]
RSub(a, b) == RAdd(a, RNeg(b))
RMul(a, b) == Rat(a.n * b.n, a.d * b.d)
RDiv(a, b) == Rat(a.n * b.d, a.d * b.n)
RLt(a, b) == a.n * b.d < b.n * a.d
RFloor(a) == a.n \div a.d
RPow2(k) == IF k >= 0 THEN [n |-> 2 ^ k, d |-> 1] ELSE [n |-> 1, d |-> 2 ^ (-k)]

\* The L with 2^L <= p/q < 2^(L+1), for p, q > 0.
RECURSIVE Log2Floor(_, _)
Log2Floor(p, q) ==
    IF p \div 2 >= q THEN 1 + Log2Floor(p, 2 * q)
    ELSE IF p < q THEN Log2Floor(2 * p, q) - 1
    ELSE 0

\* The integer nearest to the rational a, a tie going to the even one.
RoundHalfEven(a) ==
    LET f == RFloor(a)
        twice == RSub(RMul(RInt(2), a), RInt(2 * f))   \* 2 * (a - f), in [0, 2)
    IN  IF RLt(twice, RInt(1)) THEN f
        ELSE IF RLt(RInt(1), twice) THEN f + 1
        ELSE IF f % 2 = 0 THEN f ELSE f + 1

(***************************************************************************)
(* Doubles.                                                                *)
(***************************************************************************)
\* Round to 53 significant bits.  With 2^L <= |hi| < 2^(L+1) the doubles next
\* to hi are 2^(L-52) apart, that is 2^(L+2) units of lo; just below a power
\* of two they are half as far apart.
Round53(v) ==
    IF v.hi.n = 0 \/ v.lo.n = 0 THEN v
    ELSE LET L == Log2Floor(Abs(v.hi.n), v.hi.d)
             pow2 == RPow2(L) = [n |-> Abs(v.hi.n), d |-> v.hi.d]
             inward == (v.hi.n > 0) # (v.lo.n > 0)
             S == RPow2(IF pow2 /\ inward THEN L + 1 ELSE L + 2)
         IN  [hi |-> v.hi, lo |-> RMul(RInt(RoundHalfEven(RDiv(v.lo, S))), S)]

F(hi, lo) == Round53([hi |-> hi, lo |-> lo])
FInt(k) == [hi |-> RInt(k), lo |-> RInt(0)]
FZero == FInt(0)

\* The exact results, before rounding.
XAdd(a, b) == [hi |-> RAdd(a.hi, b.hi), lo |-> RAdd(a.lo, b.lo)]
XSub(a, b) == [hi |-> RSub(a.hi, b.hi), lo |-> RSub(a.lo, b.lo)]
XMul(a, b) == [hi |-> RMul(a.hi, b.hi),
               lo |-> RAdd(RMul(a.hi, b.lo), RMul(a.lo, b.hi))]
\* a / b, b # 0.  A divisor of ordinary size divides both parts (to first
\* order in 2^-54); a divisor that is all lo divides a dividend that is all lo
\* (a dividend of ordinary size over such a divisor is a tile index beyond
\* 2^53, which no input of this model produces).
XDiv(a, b) ==
    CASE b.hi.n # 0 ->
           [hi |-> RDiv(a.hi, b.hi),
            lo |-> IF a.lo.n = 0 /\ b.lo.n = 0 THEN RInt(0)
                   ELSE RDiv(RSub(RMul(a.lo, b.hi), RMul(a.hi, b.lo)),
                             RMul(b.hi, b.hi))]
      [] b.hi.n = 0 /\ a.hi.n = 0 ->
           [hi |-> RDiv(a.lo, b.lo), lo |-> RInt(0)]

FAdd(a, b) == Round53(XAdd(a, b))
FSub(a, b) == Round53(XSub(a, b))
FMul(a, b) == Round53(XMul(a, b))
FDiv(a, b) == Round53(XDiv(a, b))

FLt(a, b) == RLt(a.hi, b.hi) \/ (a.hi = b.hi /\ RLt(a.lo, b.lo))
FMax(a, b) == IF FLt(a, b) THEN b ELSE a
FMin(a, b) == IF FLt(b, a) THEN b ELSE a

\* math.floor: the lo part only matters below an integer hi.
Floor(v) ==
    IF v.hi.d = 1 /\ v.lo.n < 0 THEN v.hi.n - 1 ELSE RFloor(v.hi)

\* v % 1
Mod1(v) == FSub(v, FInt(Floor(v)))

(***************************************************************************)
(* Python values that reach the tile-argument functions: a number or a     *)
(* sequence (tuple, list, namedtuple) of values.                           *)
(***************************************************************************)
PyNum(v) == [kind |-> "num", num |-> v, items |-> <<>>]
PySeq(s) == [kind |-> "seq", num |-> FZero, items |-> s]

\* The outcome of a call: the exception raised ("" for none) and the value.
Return(v) == [exc |-> "", val |-> v]
Raise(e) == [exc |-> e, val |-> <<>>]

Bbox(left, bottom, right, top) ==
    [left |-> left, bottom |-> bottom, right |-> right, top |-> top]
XY(x, y) == [x |-> x, y |-> y]
WMTSTile(x, y, z, provider_bounds) ==
    [x |-> x, y |-> y, z |-> z, provider_bounds |-> provider_bounds]

\* 2.0 ** zoom, an exact power of two.
Pow2F(zoom) == [hi |-> RPow2(zoom), lo |-> RInt(0)]

_parse_tile_arg(args) ==
    LET a == IF Len(args) = 1 THEN args[1] ELSE PySeq(args)
    IN  IF a.kind # "seq" THEN Raise("TypeError")            \* len() of a number
        ELSE IF Len(a.items) = 4 THEN Return(a.items)
        ELSE Raise("TileArgParsingError")

\* A faulty ul(): rows counted upwards from the bottom edge (the TMS
\* convention) instead of downwards from the top.  The round trip C8 must
\* reject it.
ul_rows_from_bottom(xtile, ytile, zoom, provider_bounds) ==
    LET n == Pow2F(zoom)
        tile_dx == FDiv(FSub(provider_bounds.right, provider_bounds.left), n)
        tile_dy == FDiv(FSub(provider_bounds.top, provider_bounds.bottom), n)
    IN  XY(FAdd(provider_bounds.left, FMul(xtile, tile_dx)),
           FAdd(provider_bounds.bottom, FMul(ytile, tile_dy)))

\* ul, lines 107-113, on numbers.
ul(xtile, ytile, zoom, provider_bounds) ==
    LET n == Pow2F(zoom)
        tile_dx == FDiv(FSub(provider_bounds.right, provider_bounds.left), n)
        tile_dy == FDiv(FSub(provider_bounds.top, provider_bounds.bottom), n)
        x == FAdd(provider_bounds.left, FMul(xtile, tile_dx))
        y == FSub(provider_bounds.top, FMul(ytile, tile_dy))
    IN  XY(x, y)

\* What the unpacking and the arithmetic of ul raise on a parsed tile:
\* unpacking provider_bounds, 2.0 ** zoom beyond the double range, and the
\* division by n = 2.0 ** zoom once that has underflowed to 0.0.
TileArgError(t) ==
    IF t[4].kind # "seq" THEN "TypeError"
    ELSE IF Len(t[4].items) # 4 THEN "ValueError"
    ELSE IF t[3].kind # "num" THEN "TypeError"
    ELSE IF t[3].num.hi.n >= 1024 THEN "OverflowError"
    ELSE IF \E k \in 1..4 : t[4].items[k].kind # "num" THEN "TypeError"
    ELSE IF t[3].num.hi.n <= -1075 THEN "ZeroDivisionError"
    ELSE IF t[1].kind # "num" \/ t[2].kind # "num" THEN "TypeError"
    ELSE ""

BboxOf(v) == Bbox(v.items[1].num, v.items[2].num, v.items[3].num, v.items[4].num)

\* ul called on an argument list, lines 103-113
ul_args(tile) ==
    LET parsed == _parse_tile_arg(tile)
        t == parsed.val
    IN  IF parsed.exc # "" THEN parsed
        ELSE IF TileArgError(t) # "" THEN Raise(TileArgError(t))
        ELSE Return(ul(t[1].num, t[2].num, t[3].num.hi.n, BboxOf(t[4])))

truncate_xy(x, y, provider_bounds) ==
    LET x1 == IF FLt(provider_bounds.right, x) THEN provider_bounds.right
              ELSE IF FLt(x, provider_bounds.left) THEN provider_bounds.left
              ELSE x
        y1 == IF FLt(provider_bounds.top, y) THEN provider_bounds.top
              ELSE IF FLt(y, provider_bounds.bottom) THEN provider_bounds.bottom
              ELSE y
    IN  <<x1, y1>>

\* bounds, lines 144-146, on numbers.
bounds(xtile, ytile, zoom, provider_bounds) ==
    LET a == ul(xtile, ytile, zoom, provider_bounds)
        b == ul(FAdd(xtile, FInt(1)), FAdd(ytile, FInt(1)), zoom, provider_bounds)
    IN  Bbox(a.x, b.y, b.x, a.y)

\* bounds called on an argument list, lines 129-146
bounds_args(tile) ==
    LET parsed == _parse_tile_arg(tile)
        t == parsed.val
    IN  IF parsed.exc # "" THEN parsed
        ELSE IF TileArgError(t) # "" THEN Raise(TileArgError(t))
        ELSE Return(bounds(t[1].num, t[2].num, t[3].num.hi.n, BboxOf(t[4])))

_tile(x, y, zoom, provider_bounds) ==
    LET n == Pow2F(zoom)
        tile_dx == FDiv(FSub(provider_bounds.right, provider_bounds.left), n)
        tile_dy == FDiv(FSub(provider_bounds.top, provider_bounds.bottom), n)
        xtile == FDiv(FSub(x, provider_bounds.left), tile_dx)
        ytile == FDiv(FSub(provider_bounds.top, y), tile_dy)
    IN  <<xtile, ytile, zoom>>

tile(x, y, zoom, provider_bounds) ==
    LET t == _tile(x, y, zoom, provider_bounds)
    IN  WMTSTile(Floor(t[1]), Floor(t[2]), t[3], provider_bounds)

(***************************************************************************)
(* tiles(west, south, east, north, zooms, provider_bounds, truncate).      *)
(***************************************************************************)
\* epsilon = 1.0e-9 is 18014398.509... * 2^-54
epsilon == [hi |-> RInt(0), lo |-> Rat(36028797, 2)]

\* lines 203-206
ClampBox(west, south, east, north, provider_bounds) ==
    [w |-> FMax(provider_bounds.left, west),
     s |-> FMax(provider_bounds.bottom, south),
     e |-> FMin(provider_bounds.right, east),
     n |-> FMin(provider_bounds.top, north)]

\* lines 208-209; a zooms argument is [isSeq, int, items]
ZoomList(zs) == IF zs.isSeq THEN zs.items ELSE <<zs.int>>

\* lines 216-217 and 220-221
Snap(v) ==
    IF FLt(Mod1(v), FDiv(epsilon, FInt(10))) THEN FSub(v, epsilon) ELSE v

\* lines 224-225
ClampZero(v) == IF FLt(v, FZero) THEN FZero ELSE v

\* lines 214-227: the four integer indices of one zoom
TileRange(box, z, provider_bounds) ==
    LET ll == _tile(box.w, box.s, z, provider_bounds)
        lly == Snap(ll[2])
        ur == _tile(box.e, box.n, z, provider_bounds)
        urx == Snap(ur[1])
        llx == ClampZero(ll[1])
        ury == ClampZero(ur[2])
    IN  [llx |-> Floor(llx), urx |-> Floor(urx), lly |-> Floor(lly), ury |-> Floor(ury)]

Min(a, b) == IF a < b THEN a ELSE b

\* Faulty loop bounds: a column range without the cap at 2 ** z, and a row
\* range that stops one row early.  C2 must reject the first, C5 the second.
XStop_uncapped(r, z) == r.urx + 1
YStop_one_short(r, z) == Min(r.lly, 2 ^ z)

\* the stop of range(llx, min(urx + 1, 2 ** z)), line 229
XStop(r, z) == Min(r.urx + 1, 2 ^ z)
\* the stop of range(ury, min(lly + 1, 2 ** z)), line 230
YStop(r, z) == Min(r.lly + 1, 2 ^ z)

\* Faulty yields: x and y exchanged (C6 must reject it), and the column index
\* used for both x and y (C10 must reject it).
YieldTile_xy_swapped(i, j, z, provider_bounds) == WMTSTile(j, i, z, provider_bounds)
YieldTile_column_twice(i, j, z, provider_bounds) == WMTSTile(i, i, z, provider_bounds)

\* line 231
YieldTile(i, j, z, provider_bounds) == WMTSTile(i, j, z, provider_bounds)

VARIABLES
    call,     \* the arguments of the tiles() call
    pc,       \* where the generator stands
    exc,      \* the exception that ended it, "" for none
    q,        \* the locals west, south, east, north
    box,      \* the locals w, s, e, n
    zooms,    \* the local zooms (a list once line 209 has run)
    zi,       \* the position of z in zooms
    rng,      \* llx, urx, lly, ury of the current zoom
    i, j,     \* the loop variables
    out,      \* the tiles yielded so far
    pass,     \* for each yielded tile, the position in zooms it was yielded at
    targs,    \* the argument list of a ul()/bounds() call
    cpc,      \* where the conversion call stands
    cres,     \* the outcome of ul() or bounds()
    tres      \* the outcome of tile() on ul()'s point

tvars == <<call, pc, exc, q, box, zooms, zi, rng, i, j, out, pass>>
cvars == <<targs, cpc, cres, tres>>
vars == <<call, pc, exc, q, box, zooms, zi, rng, i, j, out, pass, targs, cpc, cres, tres>>

NoBox == [w |-> FZero, s |-> FZero, e |-> FZero, n |-> FZero]
NoRange == [llx |-> 0, urx |-> 0, lly |-> 0, ury |-> 0]

\* lines 192-209: the generator's first step
tiles_Start ==
    /\ pc = "start"
    /\ IF call.truncate
       THEN LET ws == truncate_xy(call.west, call.south, call.provider_bounds)
                en == truncate_xy(call.east, call.north, call.provider_bounds)
            IN  \* line 196 is skipped, so line 200 reads the unbound local bboxes
                /\ q' = [west |-> ws[1], south |-> ws[2], east |-> en[1], north |-> en[2]]
                /\ pc' = "raised"
                /\ exc' = "UnboundLocalError"
                /\ UNCHANGED <<box, zooms, zi>>
       ELSE /\ box' = ClampBox(q.west, q.south, q.east, q.north, call.provider_bounds)
            /\ zooms' = ZoomList(call.zooms)
            /\ zi' = 1
            /\ pc' = "zoom"
            /\ UNCHANGED <<q, exc>>
    /\ UNCHANGED <<call, rng, i, j, out, pass, targs, cpc, cres, tres>>

\* line 213 to line 229: the next z, or the end
tiles_Zoom ==
    /\ pc = "zoom"
    /\ IF zi <= Len(zooms)
       THEN /\ rng' = TileRange(box, zooms[zi], call.provider_bounds)
            /\ i' = rng'.llx
            /\ pc' = "col"
       ELSE /\ pc' = "done"
            /\ UNCHANGED <<rng, i>>
    /\ UNCHANGED <<call, exc, q, box, zooms, zi, j, out, pass, targs, cpc, cres, tres>>

\* line 229: the next i, or the next z
tiles_Col ==
    /\ pc = "col"
    /\ IF i < XStop(rng, zooms[zi])
       THEN /\ j' = rng.ury
            /\ pc' = "row"
            /\ UNCHANGED zi
       ELSE /\ zi' = zi + 1
            /\ pc' = "zoom"
            /\ UNCHANGED j
    /\ UNCHANGED <<call, exc, q, box, zooms, rng, i, out, pass, targs, cpc, cres, tres>>

\* lines 230-231: the next j and its tile, or the next i
tiles_Row ==
    /\ pc = "row"
    /\ IF j < YStop(rng, zooms[zi])
       THEN /\ out' = Append(out, YieldTile(i, j, zooms[zi], call.provider_bounds))
            /\ pass' = Append(pass, zi)
            /\ j' = j + 1
            /\ UNCHANGED <<i, pc>>
       ELSE /\ i' = i + 1
            /\ pc' = "col"
            /\ UNCHANGED <<j, out, pass>>
    /\ UNCHANGED <<call, exc, q, box, zooms, zi, rng, targs, cpc, cres, tres>>

(***************************************************************************)
(* The calls that are made.  Three providers: one of ordinary size, one    *)
(* deep enough for tile indices beyond 2^24, and one so small next to its  *)
(* distance from the origin that its tiles are a few doubles wide.         *)
(***************************************************************************)
MaxZoom == 2
BigZoom == 25

\* 2^24: the doubles are more than 2 * epsilon apart beyond it.
AbsorbEdge == 2 ^ 24
\* 2^-33 as a multiple of 2^-54: less than epsilon / 10 of a tile of the
\* ordinary provider at every zoom >= 0.
Sliver == RInt(2 ^ 21)

pbOrdinary == Bbox(FInt(-4), FInt(-2), FInt(4), FInt(4))
pbDeep == Bbox(FInt(0), FInt(0), FInt(2 ^ BigZoom), FInt(2 ^ BigZoom))
pbFine == Bbox(FInt(1), FInt(1), F(RInt(1), RInt(8)), F(RInt(1), RInt(8)))

ZoomInt(z) == [isSeq |-> FALSE, int |-> z, items |-> <<>>]
ZoomSeq(zs) == [isSeq |-> TRUE, int |-> 0, items |-> zs]

ZoomArgs ==
    {ZoomInt(z) : z \in 0..MaxZoom}
    \cup {ZoomSeq(<<z, z + 1>>) : z \in 0..(MaxZoom - 1)}
    \cup {ZoomSeq(<<MaxZoom, MaxZoom>>)}

Call(west, south, east, north, zs, provider_bounds, truncate) ==
    [west |-> west, south |-> south, east |-> east, north |-> north,
     zooms |-> zs, provider_bounds |-> provider_bounds, truncate |-> truncate]

XsOrdinary == {FInt(-6), FInt(-4), F(RInt(-4), Sliver), FInt(-2), FInt(0),
               FInt(1), FInt(4), FInt(6)}
YsOrdinary == {FInt(-2), FInt(1), F(Rat(5, 2), RInt(0)),
               F(RInt(4), RNeg(Sliver)), FInt(4), FInt(5)}

CallsOrdinary ==
    {Call(w, s, e, n, zs, pbOrdinary, t) :
        w \in XsOrdinary, e \in XsOrdinary, s \in YsOrdinary, n \in YsOrdinary,
        zs \in ZoomArgs, t \in BOOLEAN}

XsFine == {FInt(1), F(RInt(1), RInt(4)), F(RInt(1), RInt(8))}

CallsFine ==
    {Call(w, s, e, n, zs, pbFine, t) :
        w \in XsFine, e \in XsFine, s \in XsFine, n \in XsFine,
        zs \in ZoomArgs, t \in BOOLEAN}

\* Around column and row 2^24 of zoom BigZoom, and at the provider's corner.
XPairsDeep ==
    {<<FInt(AbsorbEdge + a), FInt(AbsorbEdge + b)>> : a \in -1..3, b \in -1..3}
    \cup {<<FInt(2 ^ BigZoom + a), FInt(2 ^ BigZoom + b)>> : a \in -1..1, b \in -1..1}
YPairsDeep ==
    {<<FInt(2 ^ BigZoom - AbsorbEdge - a), FInt(2 ^ BigZoom - AbsorbEdge - b)>> :
        a \in -1..2, b \in -1..2}
    \cup {<<FInt(2 ^ BigZoom - a), FInt(2 ^ BigZoom - b)>> : a \in -1..2, b \in -1..2}

CallsDeep ==
    {Call(x[1], y[1], x[2], y[2], zs, pbDeep, FALSE) :
        x \in XPairsDeep, y \in YPairsDeep,
        zs \in {ZoomInt(BigZoom), ZoomSeq(<<BigZoom - 1, BigZoom>>)}}

ConvIdle ==
    /\ targs = <<>>
    /\ cpc = "idle"
    /\ cres = Return(<<>>)
    /\ tres = Return(<<>>)

Init ==
    /\ call \in CallsOrdinary \cup CallsFine \cup CallsDeep
    /\ pc = "start"
    /\ exc = ""
    /\ q = [west |-> call.west, south |-> call.south, east |-> call.east,
            north |-> call.north]
    /\ box = NoBox
    /\ zooms = <<>>
    /\ zi = 0
    /\ rng = NoRange
    /\ i = 0
    /\ j = 0
    /\ out = <<>>
    /\ pass = <<>>
    /\ ConvIdle

Next ==
    \/ tiles_Start
    \/ tiles_Zoom
    \/ tiles_Col
    \/ tiles_Row

Spec == Init /\ [][Next]_vars

(***************************************************************************)
(* Calls of ul, of bounds, and of tile(x, y, zoom, provider_bounds)        *)
(* on the point ul returned.                                               *)
(***************************************************************************)
PbItems(pb) == <<PyNum(pb.left), PyNum(pb.bottom), PyNum(pb.right), PyNum(pb.top)>>

\* x, y, zoom, provider_bounds: every index from -1 to 2^zoom at the zooms of
\* the model, and the zooms at the two ends of the double range.
TileArgs(pb) ==
    UNION {{<<PyNum(FInt(x)), PyNum(FInt(y)), PyNum(FInt(z)), PySeq(PbItems(pb))>> :
               x \in -1..(2 ^ z), y \in -1..(2 ^ z)} : z \in 0..MaxZoom}
    \cup {<<PyNum(FInt(x)), PyNum(FInt(y)), PyNum(FInt(z)), PySeq(PbItems(pb))>> :
               x \in 0..1, y \in 0..1, z \in {-1075, -1, 1024}}

ArgValues == {PyNum(FInt(0)), PyNum(FInt(1)), PySeq(PbItems(pbOrdinary)),
              PySeq(<<PyNum(FInt(0)), PyNum(FInt(1))>>)}

ArgLists ==
    LET good == TileArgs(pbOrdinary) \cup TileArgs(pbFine)
    IN  good
        \cup {<<PySeq(t)>> : t \in good}
        \cup UNION {[1..k -> ArgValues] : k \in 0..5}

InitConv ==
    /\ targs \in ArgLists
    /\ cpc = "start"
    /\ cres = Return(<<>>)
    /\ tres = Return(<<>>)
    /\ call = Call(FZero, FZero, FZero, FZero, ZoomInt(0), pbOrdinary, FALSE)
    /\ pc = "idle"
    /\ exc = ""
    /\ q = [west |-> FZero, south |-> FZero, east |-> FZero, north |-> FZero]
    /\ box = NoBox
    /\ zooms = <<>>
    /\ zi = 0
    /\ rng = NoRange
    /\ i = 0
    /\ j = 0
    /\ out = <<>>
    /\ pass = <<>>

conv_ul ==
    /\ cpc = "start"
    /\ cres' = ul_args(targs)
    /\ cpc' = "ul"
    /\ UNCHANGED <<targs, tres>>
    /\ UNCHANGED tvars

conv_bounds ==
    /\ cpc = "start"
    /\ cres' = bounds_args(targs)
    /\ cpc' = "bounds"
    /\ UNCHANGED <<targs, tres>>
    /\ UNCHANGED tvars

\* The tile of targs as _parse_tile_arg resolves it.
ParsedTile == _parse_tile_arg(targs).val

conv_tile ==
    /\ cpc = "ul"
    /\ cres.exc = ""
    /\ tres' = Return(tile(cres.val.x, cres.val.y, ParsedTile[3].num.hi.n,
                           BboxOf(ParsedTile[4])))
    /\ cpc' = "tile"
    /\ UNCHANGED <<targs, cres>>
    /\ UNCHANGED tvars

NextConv ==
    \/ conv_ul
    \/ conv_bounds
    \/ conv_tile

SpecConv == InitConv /\ [][NextConv]_vars

(***************************************************************************)
(* What one call of tiles(truncate=False) yields, as a sequence: the loops *)
(* of lines 213-231 run to the end.                                        *)
(***************************************************************************)
RangeTiles(r, z, provider_bounds) ==
    LET nx == XStop(r, z) - r.llx
        ny == YStop(r, z) - r.ury
    IN  IF nx <= 0 \/ ny <= 0 THEN <<>>
        ELSE [k \in 1..(nx * ny) |->
                YieldTile(r.llx + ((k - 1) \div ny), r.ury + ((k - 1) % ny), z,
                          provider_bounds)]

RECURSIVE ZoomsTiles(_, _, _)
ZoomsTiles(b, zs, provider_bounds) ==
    IF zs = <<>> THEN <<>>
    ELSE RangeTiles(TileRange(b, Head(zs), provider_bounds), Head(zs), provider_bounds)
         \o ZoomsTiles(b, Tail(zs), provider_bounds)

TilesOf(west, south, east, north, zs, provider_bounds) ==
    ZoomsTiles(ClampBox(west, south, east, north, provider_bounds), ZoomList(zs),
               provider_bounds)

(***************************************************************************)
(* Vocabulary of the properties.                                           *)
(***************************************************************************)
PB == call.provider_bounds
Finished == pc = "done"
SingleZoom == ~call.zooms.isSeq
NonDegenerate == FLt(call.west, call.east) /\ FLt(call.south, call.north)
InPyramid(t) == 0 <= t.x /\ t.x < 2 ^ t.z /\ 0 <= t.y /\ t.y < 2 ^ t.z

\* The indices worth looking at around index c of zoom z: all of them in a
\* small pyramid, the neighbours of c in a deep one.
Around(c, z) ==
    IF z <= 6 THEN 0..(2 ^ z - 1)
    ELSE {k \in (c - 3)..(c + 3) : 0 <= k /\ k < 2 ^ z}

\* The query box is the box bounds() gives for tile (x, y, z).
QueryIsBoundsOf(x, y, z) ==
    LET b == bounds(FInt(x), FInt(y), z, PB)
    IN  /\ call.west = b.left
        /\ call.south = b.bottom
        /\ call.east = b.right
        /\ call.north = b.top

\* Tile (x, y, z) and the query box clamped to the provider bounds share area.
Overlaps(x, y, z) ==
    LET b == bounds(FInt(x), FInt(y), z, PB)
        c == ClampBox(call.west, call.south, call.east, call.north, PB)
    IN  /\ FLt(FMax(b.left, c.w), FMin(b.right, c.e))
        /\ FLt(FMax(b.bottom, c.s), FMin(b.top, c.n))

Yielded(x, y, z) == \E k \in DOMAIN out : out[k] = WMTSTile(x, y, z, PB)

\* The tile index of the clamped query box's upper left corner.
Corner(z) ==
    LET c == ClampBox(call.west, call.south, call.east, call.north, PB)
    IN  tile(c.w, c.n, z, PB)

(***************************************************************************)
(* C1.  tiles called on the box bounds(t) at t's zoom yields exactly the   *)
(* tile t, for every tile t of the pyramid.                                *)
(***************************************************************************)
C1_ExactBoundsYieldOneTile ==
    (Finished /\ SingleZoom) =>
        LET z == call.zooms.int
        IN  \A x \in Around(Corner(z).x, z), y \in Around(Corner(z).y, z) :
                QueryIsBoundsOf(x, y, z) => out = <<WMTSTile(x, y, z, PB)>>

(***************************************************************************)
(* C2.  Every tile yielded lies in the pyramid: 0 <= x < 2^z and           *)
(* 0 <= y < 2^z, whatever the query box.                                   *)
(***************************************************************************)
C2_YieldedInPyramid == \A k \in DOMAIN out : InPyramid(out[k])

\* A finished call whose query box reaches beyond the provider bounds to the
\* west, the east and the north, and that yielded tiles.
C2_Witness ==
    /\ Finished
    /\ FLt(call.west, PB.left) /\ FLt(PB.right, call.east)
    /\ FLt(PB.top, call.north)
    /\ Len(out) > 1

(***************************************************************************)
(* C3.  tiles(truncate=True) yields what tiles(truncate=False) yields on   *)
(* the box whose two corners truncate_xy has clamped.                      *)
(***************************************************************************)
C3_TruncateYieldsClampedBox ==
    (call.truncate /\ pc \in {"done", "raised"}) =>
        LET ws == truncate_xy(call.west, call.south, PB)
            en == truncate_xy(call.east, call.north, PB)
        IN  /\ pc = "done"
            /\ out = TilesOf(ws[1], ws[2], en[1], en[2], call.zooms, PB)

(***************************************************************************)
(* C4.  For a non-degenerate query box and one zoom, the tiles yielded are *)
(* exactly the tiles of the pyramid whose box overlaps the clamped query   *)
(* box with positive area.                                                 *)
(***************************************************************************)
C4_YieldsExactlyOverlapped ==
    (Finished /\ SingleZoom /\ NonDegenerate) =>
        LET z == call.zooms.int
        IN  /\ \A k \in DOMAIN out :
                  InPyramid(out[k]) /\ Overlaps(out[k].x, out[k].y, z)
            /\ \A x \in Around(Corner(z).x, z), y \in Around(Corner(z).y, z) :
                  Overlaps(x, y, z) => Yielded(x, y, z)

ReachesRoot ==
    LET ll == _tile(box.w, box.s, 0, PB)
        ur == _tile(box.e, box.n, 0, PB)
        tenth == FDiv(epsilon, FInt(10))
    IN  /\ FLt(ll[1], FInt(1))
        /\ FLt(ur[2], FInt(1))
        /\ ~FLt(ur[1], tenth)
        /\ ~FLt(ll[2], tenth)

C6_RowMajorOrder ==
    \A a \in DOMAIN out, b \in DOMAIN out :
        a < b =>
            /\ pass[a] <= pass[b]
            /\ out[a].z = out[b].z =>
                  \/ out[a].y < out[b].y
                  \/ out[a].y = out[b].y /\ out[a].x < out[b].x

\* C6 as amended: the order is column-major.  Within one requested zoom the
\* tile yielded first has the smaller (x, y): the tiles of a column x come
\* together with y ascending, the columns with x ascending; and the tiles of
\* one requested zoom all come before those of the next.
C6_ColumnMajorOrder ==
    \A a \in DOMAIN out, b \in DOMAIN out :
        a < b =>
            /\ pass[a] <= pass[b]
            /\ out[a].z = zooms[pass[a]]
            /\ out[b].z = zooms[pass[b]]
            /\ pass[a] = pass[b] =>
                  \/ out[a].x < out[b].x
                  \/ out[a].x = out[b].x /\ out[a].y < out[b].y

\* Two zooms were asked for, and the second gave two columns of two rows.
C6_Witness ==
    /\ Finished
    /\ Len(zooms) = 2
    /\ \E a \in DOMAIN out, b \in DOMAIN out :
          /\ pass[a] = 1 /\ pass[b] = 2
          /\ Yielded(out[b].x + 1, out[b].y + 1, out[b].z)

(***************************************************************************)
(* C7.  For one query box, the count n1 at zoom z + 1 and the count n0 at  *)
(* zoom z satisfy n0 <= n1 <= 4 * n0.                                      *)
(***************************************************************************)
CountOfPass(p) == Cardinality({k \in DOMAIN out : pass[k] = p})

C7_PyramidDoubling ==
    (Finished /\ Len(zooms) = 2 /\ zooms[2] = zooms[1] + 1) =>
        /\ CountOfPass(1) <= CountOfPass(2)
        /\ CountOfPass(2) <= 4 * CountOfPass(1)

(***************************************************************************)
(* C10.  No tile is yielded twice in one call, whatever zooms is.          *)
(***************************************************************************)
C10_NoDuplicates ==
    \A a \in DOMAIN out, b \in DOMAIN out : a < b => out[a] # out[b]

\* C10 as amended: no tile is yielded twice in one call when no zoom level
\* occurs twice in zooms.
C10_NoDuplicatesForDistinctZooms ==
    LET zs == ZoomList(call.zooms)
    IN  (\A a \in DOMAIN zs, b \in DOMAIN zs : a < b => zs[a] # zs[b]) =>
            \A a \in DOMAIN out, b \in DOMAIN out : a < b => out[a] # out[b]

\* Two distinct zooms were asked for and each gave several tiles.
C10_Witness ==
    /\ Finished
    /\ Len(zooms) = 2 /\ zooms[1] # zooms[2]
    /\ CountOfPass(1) > 1 /\ CountOfPass(2) > 1

(***************************************************************************)
(* C8.  Round trip: for every tile (x, y, z) of the pyramid, tile() on the *)
(* point ul(x, y, z, provider_bounds) gives WMTSTile(x, y, z,              *)
(* provider_bounds) back.                                                  *)
(***************************************************************************)
\* ul was called with four positional arguments that name a tile of the
\* pyramid, and tile() was called on its point.
RoundTripDone ==
    /\ cpc = "tile"
    /\ Len(targs) = 4
    /\ ParsedTile[3].num.hi.n >= 0
    /\ InPyramid([x |-> ParsedTile[1].num.hi.n, y |-> ParsedTile[2].num.hi.n,
                  z |-> ParsedTile[3].num.hi.n])

TileOfArgs ==
    WMTSTile(ParsedTile[1].num.hi.n, ParsedTile[2].num.hi.n, ParsedTile[3].num.hi.n,
             BboxOf(ParsedTile[4]))

UlIsExact(xtile, ytile, zoom, provider_bounds) ==
    LET n == Pow2F(zoom)
        tile_dx == FDiv(FSub(provider_bounds.right, provider_bounds.left), n)
        tile_dy == FDiv(FSub(provider_bounds.top, provider_bounds.bottom), n)
    IN  /\ FMul(xtile, tile_dx) = XMul(xtile, tile_dx)
        /\ FMul(ytile, tile_dy) = XMul(ytile, tile_dy)
        /\ FAdd(provider_bounds.left, FMul(xtile, tile_dx))
              = XAdd(provider_bounds.left, FMul(xtile, tile_dx))
        /\ FSub(provider_bounds.top, FMul(ytile, tile_dy))
              = XSub(provider_bounds.top, FMul(ytile, tile_dy))

ResolvesToFour ==
    \/ Len(targs) = 4
    \/ Len(targs) = 1 /\ targs[1].kind = "seq" /\ Len(targs[1].items) = 4

C9_OnlyArgShapeErrors ==
    cpc \in {"ul", "bounds"} =>
        cres.exc = IF ResolvesToFour THEN "" ELSE "TileArgParsingError"

====
